---------------------------- MODULE Spec2Model ----------------------------
(***************************************************************************)
(* State machine of drivers/soc/qcom/state_helper.c: the CPU hotplug       *)
(* governor that parks cores while the device state is suspended.          *)
(*                                                                         *)
(* Execution contexts, each with its own program counter:                  *)
(*   E  a writer of the sysfs attribute "enabled"      (store_enabled,     *)
(*      state_helper_start, state_helper_stop)                             *)
(*   M  a writer of the attribute "max_cpus_online"                        *)
(*   D  a writer of the attribute "debug_mask"                             *)
(*   N  the state notifier chain calling state_notifier_callback           *)
(*   W  the kworkers executing state_helper_work, one per worker pool      *)
(* The contexts interleave at the granularity of the reads and writes of   *)
(* the shared statics (helper, helper_wq, helper_work, target_cpus) and    *)
(* of the calls into the workqueue, notifier and hotplug cores.            *)
(***************************************************************************)
EXTENDS Integers, FiniteSets, Sequences, TLC

\* Number of possible CPUs of the build (NR_CPUS); CPUs are 0 .. NR_CPUS-1.
NR_CPUS == 3
\* Number of workqueues the allocator can hold before alloc_workqueue fails.
MaxWq == 2
\* Number of attribute writes and state notifications in a run.
MaxOps == 4

HELPER_ENABLED == 0
\* The default written as the highest CPU id instead of the CPU count.
DEFAULT_MAX_AS_LAST_ID == NR_CPUS - 1
DEFAULT_MAX_CPUS_ONLINE == NR_CPUS
DEFAULT_SUSP_CPUS == 1
DEBUG_MASK == 1
\* a large unsigned int, far above every accepted value
LargeVal == 2^30

CPUs == 0 .. (NR_CPUS - 1)
\* The worker pools an entry of helper_work can sit on (the pool of the CPU
\* that queued it); each pool runs helper_work on one kworker at a time.
Pools == {"p0", "p1"}
NoPool == "none"

VARIABLES
    ops,                \* attribute writes and state notifications so far
    enabled,            \* helper.enabled
    max_cpus_online,    \* helper.max_cpus_online
    debug,              \* helper.debug
    state_suspended,    \* the state subsystem's flag
    cpu_online,         \* cpu_online_mask: the set of online CPUs
    target_cpus,        \* the static target_cpus
    platform_refuses,   \* whether cpu_up/cpu_down may fail on this platform
    helper_wq,          \* "NULL", "live" or "freed" (dangling after destroy)
    nr_wq,              \* workqueues allocated and not destroyed
    notif_registered,   \* notif is on the state notifier chain
    work_init,          \* INIT_DELAYED_WORK has run on helper_work
    pending,            \* WORK_STRUCT_PENDING bit of helper_work
    worklist,           \* per pool: entries of helper_work queued, by workqueue
    work_pool,          \* pool recorded in helper_work's data word
    e_pc, e_cpu,        \* context E and the cursor of its cpu_up loop
    m_pc,               \* context M
    d_pc,               \* context D
    n_pc,               \* context N
    w_pc, w_cpu, w_from, \* per pool: kworker position, loop cursor, workqueue
    w_en                \* per pool: helper.enabled when the pass read its inputs

cfg   == <<enabled, max_cpus_online, debug>>
plat  == <<state_suspended, cpu_online, platform_refuses>>
wqv   == <<helper_wq, nr_wq>>
workv == <<work_init, pending, worklist, work_pool>>
wrk   == <<w_pc, w_cpu, w_from, w_en>>
ctx   == <<e_pc, e_cpu, m_pc, d_pc, n_pc>>
vars  == <<ops, enabled, max_cpus_online, debug, state_suspended, cpu_online,
           target_cpus, platform_refuses, helper_wq, nr_wq, notif_registered,
           work_init, pending, worklist, work_pool, e_pc, e_cpu, m_pc,
           d_pc, n_pc, w_pc, w_cpu, w_from, w_en>>

-----------------------------------------------------------------------------
\* What a write to an attribute parses to: sscanf(buf, "%u", &val) yields the
\* number of conversions and, when it is 1, an unsigned int.
WriteInputs ==
    {[ret |-> 0, val |-> 0]} \cup
    {[ret |-> 1, val |-> v] : v \in (0 .. (NR_CPUS + 1)) \cup {LargeVal}}

\* num_online_cpus()
num_online_cpus == Cardinality(cpu_online)

\* state_helper_work, lines 55-58
compute_target(suspended, max_online) ==
    IF suspended THEN DEFAULT_SUSP_CPUS ELSE max_online

\* The loops walking the CPU mask from the highest id down.
Highest(S) == CHOOSE x \in S : \A y \in S : x >= y

\* for_each_online_cpu / for_each_possible_cpu: the next CPU of a mask
Min(S) == CHOOSE x \in S : \A y \in S : x <= y

\* The results cpu_down(cpu) can leave in cpu_online_mask.
CpuDownResults(cpu) ==
    {cpu_online \ {cpu}} \cup (IF platform_refuses THEN {cpu_online} ELSE {})

\* The results cpu_up(cpu) can leave in cpu_online_mask.
CpuUpResults(cpu) ==
    {cpu_online \cup {cpu}} \cup (IF platform_refuses THEN {cpu_online} ELSE {})

InitHelper ==
    /\ ops = 0
    /\ enabled = HELPER_ENABLED
    /\ max_cpus_online = DEFAULT_MAX_CPUS_ONLINE
    /\ debug = DEBUG_MASK
    /\ state_suspended = FALSE
    /\ cpu_online = CPUs
    /\ target_cpus = 0
    /\ helper_wq = "NULL"
    /\ nr_wq = 0
    /\ notif_registered = FALSE
    /\ work_init = FALSE
    /\ pending = FALSE
    /\ worklist = [p \in Pools |-> [cur |-> 0, old |-> 0]]
    /\ work_pool = NoPool
    /\ e_pc = "idle" /\ e_cpu = 0
    /\ m_pc = "idle"
    /\ d_pc = "idle"
    /\ n_pc = "idle"
    /\ w_pc = [p \in Pools |-> "idle"]
    /\ w_cpu = [p \in Pools |-> 0]
    /\ w_from = [p \in Pools |-> "none"]
    /\ w_en = [p \in Pools |-> 1]

\* After module load and state_helper_probe (helper.enabled is 0, so probe
\* starts nothing), on a platform whose hotplug requests may be refused.
Init == InitHelper /\ platform_refuses = TRUE

\* The same on a platform that never refuses a hotplug request.
InitReliable == InitHelper /\ platform_refuses = FALSE

-----------------------------------------------------------------------------
(* The workqueue core, as far as helper_work uses it.                       *)

Tags == {"cur", "old"}

Enqueue(wl, p, t) == [wl EXCEPT ![p][t] = @ + 1]
Dequeue(wl, p, t) == [wl EXCEPT ![p][t] = @ - 1]

PoolQuiet(p) == w_pc[p] = "idle" /\ worklist[p].cur = 0 /\ worklist[p].old = 0

\* The pools __queue_work may pick: the pool where the item is still running
\* for the same workqueue, else the pool of the queueing CPU.  While every
\* pool is quiet the pools are interchangeable, and the first one is named.
TargetPools ==
    IF work_pool # NoPool /\ w_pc[work_pool] # "idle" /\ w_from[work_pool] = "cur"
    THEN {work_pool}
    ELSE IF \A p \in Pools : PoolQuiet(p)
    THEN {"p0"}
    ELSE Pools

\* queue_delayed_work(helper_wq, &helper_work, 0) with the PENDING bit clear
\* and a live workqueue: the item goes straight onto a pool's worklist.  An
\* item that was never initialised has a zeroed list entry, which
\* __queue_work refuses: the bit stays set and nothing is queued.
QueueOnLive ==
    /\ pending' = TRUE
    /\ IF work_init
       THEN \E p \in TargetPools :
               /\ worklist' = Enqueue(worklist, p, "cur")
               /\ work_pool' = p
       ELSE UNCHANGED <<worklist, work_pool>>
    /\ UNCHANGED work_init

\* The same call through a NULL helper_wq: the bit is taken, then the
\* dereference of the workqueue faults and the calling context dies.
QueueOnNull ==
    /\ pending' = TRUE
    /\ UNCHANGED <<work_init, worklist, work_pool>>

\* The same call through a helper_wq that destroy_workqueue has freed: the
\* read of freed memory either faults or still finds a pool to queue on.
QueueOnFreed ==
    \/ QueueOnNull
    \/ /\ work_init
       /\ pending' = TRUE
       /\ \E p \in TargetPools :
             /\ worklist' = Enqueue(worklist, p, "old")
             /\ work_pool' = p
       /\ UNCHANGED work_init

\* queue_delayed_work does nothing when the PENDING bit is already set.
AlreadyPending == pending

\* reschedule_work queueing whether or not the item is already pending, as
\* it would on a work item of its own for each call.
reschedule_work_each_call ==
    CASE helper_wq = "live"  -> QueueOnLive
      [] helper_wq = "NULL"  -> QueueOnNull
      [] helper_wq = "freed" -> QueueOnFreed

\* reschedule_work(), lines 95-98
reschedule_work ==
    IF AlreadyPending
    THEN UNCHANGED <<work_init, pending, worklist, work_pool>>
    ELSE CASE helper_wq = "live"  -> QueueOnLive
           [] helper_wq = "NULL"  -> QueueOnNull
           [] helper_wq = "freed" -> QueueOnFreed

\* The call of reschedule_work just made faulted in the workqueue core.
CallFaulted ==
    ~AlreadyPending /\ helper_wq # "live" /\ worklist' = worklist

\* flush_workqueue(helper_wq) / the drain in destroy_workqueue(helper_wq)
\* return once nothing queued on that workqueue is waiting or running.
WqIdle ==
    /\ \A p \in Pools : worklist[p].cur = 0
    /\ \A p \in Pools : w_pc[p] # "idle" => w_from[p] # "cur"

\* A new value of helper_wq makes the queue it pointed to an older one.
Retire(wl) == [p \in Pools |-> [cur |-> 0, old |-> wl[p].old + wl[p].cur]]
RetireFrom == [p \in Pools |-> IF w_from[p] = "cur" THEN "old" ELSE w_from[p]]

\* cancel_delayed_work_sync waits for the execution in the pool the data
\* word names; a grab of the PENDING bit needs the entry it belongs to.
CancelReady ==
    /\ work_pool # NoPool => w_pc[work_pool] = "idle"
    /\ pending => /\ work_pool # NoPool
                  /\ \E t \in Tags : worklist[work_pool][t] > 0

\* state_unregister_client returns once no callback of the chain is running.
ChainQuiet == n_pc = "idle"

-----------------------------------------------------------------------------
(* Context E: store_enabled, state_helper_start, state_helper_stop.         *)

\* store_enabled, line 173: the write is refused
EnabledRejects(in) == in.ret # 1 \/ in.val < 0 \/ in.val > 1

\* store_enabled, lines 172-184, up to the call of start or stop
store_enabled(in) ==
    /\ ops < MaxOps
    /\ ops' = ops + 1
    /\ e_pc = "idle"
    /\ IF EnabledRejects(in)
       THEN /\ e_pc' = "einval"
            /\ UNCHANGED enabled
       ELSE IF in.val = enabled
       THEN UNCHANGED <<e_pc, enabled>>
       ELSE /\ enabled' = in.val
            /\ e_pc' = IF in.val # 0 THEN "start_alloc" ELSE "stop_unregister"
    /\ UNCHANGED <<max_cpus_online, debug, plat, target_cpus, wqv,
                   notif_registered, workv, e_cpu, m_pc, d_pc, n_pc, wrk>>

\* store_enabled returns: -EINVAL (line 174), or count after start or stop
\* has returned (line 186)
store_enabled_return ==
    /\ UNCHANGED ops
    /\ e_pc \in {"einval", "started", "start_failed", "stopped"}
    /\ e_pc' = "idle"
    /\ UNCHANGED <<cfg, plat, target_cpus, wqv, notif_registered, workv, e_cpu,
                   m_pc, d_pc, n_pc, wrk>>

\* state_helper_start, lines 113-119: alloc_workqueue succeeds or fails
start_alloc ==
    /\ UNCHANGED ops
    /\ e_pc = "start_alloc"
    /\ \/ /\ nr_wq < MaxWq
          /\ helper_wq' = "live"
          /\ nr_wq' = nr_wq + 1
          /\ e_pc' = "start_register"
       \/ /\ helper_wq' = "NULL"
          /\ nr_wq' = nr_wq
          /\ e_pc' = "err_out"
    /\ worklist' = Retire(worklist)
    /\ w_from' = RetireFrom
    /\ UNCHANGED <<cfg, plat, target_cpus, notif_registered, work_init, pending,
                   work_pool, e_cpu, m_pc, d_pc, n_pc, w_pc, w_cpu, w_en>>

\* state_helper_start, lines 121-126: state_register_client succeeds or fails
start_register ==
    /\ UNCHANGED ops
    /\ e_pc = "start_register"
    /\ \/ /\ notif_registered' = TRUE
          /\ e_pc' = "start_init"
       \/ /\ notif_registered' = notif_registered
          /\ e_pc' = "err_dev"
    /\ UNCHANGED <<cfg, plat, target_cpus, wqv, workv, e_cpu, m_pc, d_pc, n_pc,
                   wrk>>

\* state_helper_start, line 128: INIT_DELAYED_WORK resets the data word and
\* the list entry of helper_work; an entry already on a worklist stays linked
\* from that list.
start_init ==
    /\ UNCHANGED ops
    /\ e_pc = "start_init"
    /\ work_init' = TRUE
    /\ pending' = FALSE
    /\ work_pool' = NoPool
    /\ e_pc' = "start_resched"
    /\ UNCHANGED <<cfg, plat, target_cpus, wqv, notif_registered, worklist,
                   e_cpu, m_pc, d_pc, n_pc, wrk>>

\* state_helper_start, lines 129-131
start_resched ==
    /\ UNCHANGED ops
    /\ e_pc = "start_resched"
    /\ reschedule_work
    /\ e_pc' = "started"
    /\ UNCHANGED <<cfg, plat, target_cpus, wqv, notif_registered, e_cpu, m_pc,
                   d_pc, n_pc, wrk>>

\* state_helper_start, lines 132-133: destroy_workqueue drains, then frees;
\* helper_wq keeps pointing at the freed queue.
start_err_dev ==
    /\ UNCHANGED ops
    /\ e_pc = "err_dev"
    /\ WqIdle
    /\ helper_wq' = "freed"
    /\ nr_wq' = nr_wq - 1
    /\ e_pc' = "err_out"
    /\ UNCHANGED <<cfg, plat, target_cpus, notif_registered, workv, e_cpu, m_pc,
                   d_pc, n_pc, wrk>>

\* The error exit without line 135: helper.enabled keeps the written value.
start_err_out_keeps_enabled ==
    /\ UNCHANGED ops
    /\ e_pc = "err_out"
    /\ e_pc' = "start_failed"
    /\ UNCHANGED <<cfg, plat, target_cpus, wqv, notif_registered, workv, e_cpu,
                   m_pc, d_pc, n_pc, wrk>>

\* state_helper_start, lines 134-136
start_err_out ==
    /\ UNCHANGED ops
    /\ e_pc = "err_out"
    /\ enabled' = 0
    /\ e_pc' = "start_failed"
    /\ UNCHANGED <<max_cpus_online, debug, plat, target_cpus, wqv,
                   notif_registered, workv, e_cpu, m_pc, d_pc, n_pc, wrk>>

\* state_helper_stop, lines 143-144
stop_unregister ==
    /\ UNCHANGED ops
    /\ e_pc = "stop_unregister"
    /\ ChainQuiet
    /\ notif_registered' = FALSE
    /\ e_pc' = "stop_flush"
    /\ UNCHANGED <<cfg, plat, target_cpus, wqv, workv, e_cpu, m_pc, d_pc, n_pc,
                   wrk>>

\* state_helper_stop, line 146
stop_flush ==
    /\ UNCHANGED ops
    /\ e_pc = "stop_flush"
    /\ WqIdle
    /\ e_pc' = "stop_cancel"
    /\ UNCHANGED <<cfg, plat, target_cpus, wqv, notif_registered, workv, e_cpu,
                   m_pc, d_pc, n_pc, wrk>>

\* state_helper_stop, line 147
stop_cancel ==
    /\ UNCHANGED ops
    /\ e_pc = "stop_cancel"
    /\ CancelReady
    /\ IF pending
       THEN \E t \in Tags :
               /\ worklist[work_pool][t] > 0
               /\ worklist' = Dequeue(worklist, work_pool, t)
       ELSE UNCHANGED worklist
    /\ pending' = FALSE
    /\ e_cpu' = -1
    /\ e_pc' = "stop_cpu_up"
    /\ UNCHANGED <<cfg, plat, target_cpus, wqv, notif_registered, work_init,
                   work_pool, m_pc, d_pc, n_pc, wrk>>

\* The possible CPUs after c that are offline.
OfflineAfter(c) == {x \in CPUs : x > c /\ x \notin cpu_online}

\* state_helper_stop, lines 150-153: the loop runs on to the next offline
\* CPU and requests it online, or ends and stop returns.
stop_cpu_up ==
    /\ UNCHANGED ops
    /\ e_pc = "stop_cpu_up"
    /\ IF OfflineAfter(e_cpu) # {}
       THEN LET cpu == Min(OfflineAfter(e_cpu)) IN
            /\ cpu_online' \in CpuUpResults(cpu)
            /\ e_cpu' = cpu
            /\ e_pc' = e_pc
       ELSE /\ e_pc' = "stopped"
            /\ e_cpu' = 0
            /\ UNCHANGED cpu_online
    /\ UNCHANGED <<cfg, state_suspended, platform_refuses, target_cpus, wqv,
                   notif_registered, workv, m_pc, d_pc, n_pc, wrk>>

-----------------------------------------------------------------------------
(* Context N: the state subsystem and state_notifier_callback.              *)

\* The state subsystem flips state_suspended and calls the notifier chain.
state_notify ==
    /\ ops < MaxOps
    /\ ops' = ops + 1
    /\ n_pc = "idle"
    /\ state_suspended' = ~state_suspended
    /\ n_pc' = IF notif_registered THEN "callback" ELSE "idle"
    /\ UNCHANGED <<cfg, cpu_online, platform_refuses, target_cpus, wqv,
                   notif_registered, workv, e_pc, e_cpu, m_pc, d_pc, wrk>>

\* state_notifier_callback, line 103: the governor is seen disabled
CallbackSkips == enabled = 0

\* state_notifier_callback, lines 103-104
state_notifier_callback ==
    /\ UNCHANGED ops
    /\ n_pc = "callback"
    /\ n_pc' = IF CallbackSkips THEN "ret_disabled" ELSE "resched"
    /\ UNCHANGED <<cfg, plat, target_cpus, wqv, notif_registered, workv, e_pc,
                   e_cpu, m_pc, d_pc, wrk>>

\* state_notifier_callback, lines 106-108
callback_resched ==
    /\ UNCHANGED ops
    /\ n_pc = "resched"
    /\ reschedule_work
    /\ n_pc' = "idle"
    /\ UNCHANGED <<cfg, plat, target_cpus, wqv, notif_registered, e_pc, e_cpu,
                   m_pc, d_pc, wrk>>

\* state_notifier_callback, line 104: return NOTIFY_OK
callback_return ==
    /\ UNCHANGED ops
    /\ n_pc = "ret_disabled"
    /\ n_pc' = "idle"
    /\ UNCHANGED <<cfg, plat, target_cpus, wqv, notif_registered, workv, e_pc,
                   e_cpu, m_pc, d_pc, wrk>>

-----------------------------------------------------------------------------
(* Context M: store_max_cpus_online.                                        *)

\* The range test of line 204 without its lower bound.
MaxRejectsAboveOnly(in) == in.ret # 1 \/ in.val > NR_CPUS

\* store_max_cpus_online, line 204: the write is refused
MaxRejects(in) == in.ret # 1 \/ in.val < 1 \/ in.val > NR_CPUS

\* store_max_cpus_online, lines 203-207
store_max_cpus_online(in) ==
    /\ ops < MaxOps
    /\ ops' = ops + 1
    /\ m_pc = "idle"
    /\ IF MaxRejects(in)
       THEN /\ m_pc' = "einval"
            /\ UNCHANGED max_cpus_online
       ELSE /\ max_cpus_online' = in.val
            /\ m_pc' = "check"
    /\ UNCHANGED <<enabled, debug, plat, target_cpus, wqv, notif_registered,
                   workv, e_pc, e_cpu, d_pc, n_pc, wrk>>

\* store_max_cpus_online returns -EINVAL (line 205) or count (line 211)
store_max_return ==
    /\ UNCHANGED ops
    /\ m_pc \in {"einval", "ret_stored", "ret_sched"}
    /\ m_pc' = "idle"
    /\ UNCHANGED <<cfg, plat, target_cpus, wqv, notif_registered, workv, e_pc,
                   e_cpu, d_pc, n_pc, wrk>>

\* Line 209 without the test of helper.enabled.
MaxReschedulesAlways == TRUE

\* store_max_cpus_online, line 208: the governor is seen enabled
MaxReschedules == enabled # 0

\* store_max_cpus_online, line 208
store_max_check ==
    /\ UNCHANGED ops
    /\ m_pc = "check"
    /\ m_pc' = IF MaxReschedules THEN "resched" ELSE "ret_stored"
    /\ UNCHANGED <<cfg, plat, target_cpus, wqv, notif_registered, workv, e_pc,
                   e_cpu, d_pc, n_pc, wrk>>

\* store_max_cpus_online, lines 209-211
store_max_resched ==
    /\ UNCHANGED ops
    /\ m_pc = "resched"
    /\ reschedule_work
    /\ m_pc' = IF CallFaulted THEN "idle" ELSE "ret_sched"
    /\ UNCHANGED <<cfg, plat, target_cpus, wqv, notif_registered, e_pc, e_cpu,
                   d_pc, n_pc, wrk>>

-----------------------------------------------------------------------------
(* Context D: store_debug_mask.                                             *)

\* store_debug_mask, line 229: the write is refused
DebugRejects(in) == in.ret # 1 \/ in.val < 0 \/ in.val > 1

\* store_debug_mask, lines 228-237
store_debug_mask(in) ==
    /\ ops < MaxOps
    /\ ops' = ops + 1
    /\ d_pc = "idle"
    /\ IF DebugRejects(in)
       THEN /\ d_pc' = "einval"
            /\ UNCHANGED debug
       ELSE /\ debug' = IF in.val = debug THEN debug ELSE in.val
            /\ d_pc' = "idle"
    /\ UNCHANGED <<enabled, max_cpus_online, plat, target_cpus, wqv,
                   notif_registered, workv, e_pc, e_cpu, m_pc, n_pc, wrk>>

\* store_debug_mask, line 230: return -EINVAL
store_debug_einval ==
    /\ UNCHANGED ops
    /\ d_pc = "einval"
    /\ d_pc' = "idle"
    /\ UNCHANGED <<cfg, plat, target_cpus, wqv, notif_registered, workv, e_pc,
                   e_cpu, m_pc, n_pc, wrk>>

-----------------------------------------------------------------------------
(* The kworkers: process_one_work and state_helper_work.                    *)

\* A kworker takes an entry of helper_work off its pool's worklist, clears
\* the PENDING bit, records its pool in the data word and calls the function.
process_one_work(p) ==
    /\ UNCHANGED ops
    /\ w_pc[p] = "idle"
    /\ \E t \in Tags :
          /\ worklist[p][t] > 0
          /\ worklist' = Dequeue(worklist, p, t)
          /\ w_from' = [w_from EXCEPT ![p] = t]
    /\ pending' = FALSE
    /\ work_pool' = p
    /\ w_pc' = [w_pc EXCEPT ![p] = "target"]
    /\ w_cpu' = [w_cpu EXCEPT ![p] = -1]
    /\ UNCHANGED <<cfg, plat, target_cpus, wqv, notif_registered, work_init,
                   ctx, w_en>>

\* state_helper_work, lines 55-58
work_target(p) ==
    /\ UNCHANGED ops
    /\ w_pc[p] = "target"
    /\ target_cpus' = compute_target(state_suspended, max_cpus_online)
    /\ w_pc' = [w_pc EXCEPT ![p] = "compare"]
    /\ w_en' = [w_en EXCEPT ![p] = enabled]
    /\ UNCHANGED <<cfg, plat, wqv, notif_registered, workv, ctx, w_cpu, w_from>>

\* The kworker of pool p returns from state_helper_work (lines 83, 86-93:
\* the log lines read helper.debug and write nothing).
WorkDone(p) ==
    /\ w_pc' = [w_pc EXCEPT ![p] = "idle"]
    /\ w_cpu' = [w_cpu EXCEPT ![p] = 0]
    /\ w_from' = [w_from EXCEPT ![p] = "none"]
    /\ w_en' = [w_en EXCEPT ![p] = 1]

\* state_helper_work, lines 60, 70, 80-84
work_compare(p) ==
    /\ UNCHANGED ops
    /\ w_pc[p] = "compare"
    /\ IF target_cpus < num_online_cpus
       THEN w_pc' = [w_pc EXCEPT ![p] = "down"] /\ UNCHANGED <<w_cpu, w_from, w_en>>
       ELSE IF target_cpus > num_online_cpus
       THEN w_pc' = [w_pc EXCEPT ![p] = "up"] /\ UNCHANGED <<w_cpu, w_from, w_en>>
       ELSE WorkDone(p)
    /\ UNCHANGED <<cfg, plat, target_cpus, wqv, notif_registered, workv, ctx>>

\* The offline loop without lines 62-63.
SkipsNoCpu(cpu) == FALSE

\* state_helper_work, lines 62-63: the CPU the offline loop passes over
SkipsCpu(cpu) == cpu = 0

\* for_each_online_cpu continued after c: the online CPUs the loop stops at
DownCandidates(c) == {x \in cpu_online : x > c /\ ~SkipsCpu(x)}

\* The offline loop without the test of lines 67-68.
work_down_no_break(p) ==
    /\ UNCHANGED ops
    /\ w_pc[p] = "down"
    /\ IF DownCandidates(w_cpu[p]) = {}
       THEN WorkDone(p) /\ UNCHANGED cpu_online
       ELSE LET cpu == Min(DownCandidates(w_cpu[p])) IN
            /\ cpu_online' \in CpuDownResults(cpu)
            /\ w_cpu' = [w_cpu EXCEPT ![p] = cpu]
            /\ UNCHANGED <<w_pc, w_from, w_en>>
    /\ UNCHANGED <<cfg, state_suspended, platform_refuses, target_cpus, wqv,
                   notif_registered, workv, ctx>>

\* The offline loop leaving at the first request the platform refuses.
work_down_stops_on_refusal(p) ==
    /\ UNCHANGED ops
    /\ w_pc[p] = "down"
    /\ IF \/ w_cpu[p] >= 0 /\ target_cpus >= num_online_cpus
          \/ DownCandidates(w_cpu[p]) = {}
       THEN WorkDone(p) /\ UNCHANGED cpu_online
       ELSE LET cpu == Min(DownCandidates(w_cpu[p])) IN
            /\ cpu_online' \in CpuDownResults(cpu)
            /\ IF cpu_online' = cpu_online
               THEN WorkDone(p)
               ELSE /\ w_cpu' = [w_cpu EXCEPT ![p] = cpu]
                    /\ UNCHANGED <<w_pc, w_from, w_en>>
    /\ UNCHANGED <<cfg, state_suspended, platform_refuses, target_cpus, wqv,
                   notif_registered, workv, ctx>>

\* state_helper_work, lines 61-69: after a request the loop checks the live
\* count (lines 67-68), then runs on to the next online CPU and requests it
\* offline (line 66); w_cpu = -1 before the first request.
work_down(p) ==
    /\ UNCHANGED ops
    /\ w_pc[p] = "down"
    /\ IF \/ w_cpu[p] >= 0 /\ target_cpus >= num_online_cpus
          \/ DownCandidates(w_cpu[p]) = {}
       THEN WorkDone(p) /\ UNCHANGED cpu_online
       ELSE LET cpu == Min(DownCandidates(w_cpu[p])) IN
            /\ cpu_online' \in CpuDownResults(cpu)
            /\ w_cpu' = [w_cpu EXCEPT ![p] = cpu]
            /\ UNCHANGED <<w_pc, w_from, w_en>>
    /\ UNCHANGED <<cfg, state_suspended, platform_refuses, target_cpus, wqv,
                   notif_registered, workv, ctx>>

\* The online loop without the test of lines 72-73.
work_up_no_break(p) ==
    /\ UNCHANGED ops
    /\ w_pc[p] = "up"
    /\ IF OfflineAfter(w_cpu[p]) = {}
       THEN WorkDone(p) /\ UNCHANGED cpu_online
       ELSE LET cpu == Min(OfflineAfter(w_cpu[p])) IN
            /\ cpu_online' \in CpuUpResults(cpu)
            /\ w_cpu' = [w_cpu EXCEPT ![p] = cpu]
            /\ UNCHANGED <<w_pc, w_from, w_en>>
    /\ UNCHANGED <<cfg, state_suspended, platform_refuses, target_cpus, wqv,
                   notif_registered, workv, ctx>>

\* state_helper_work, lines 71-79: the loop checks the live count (lines
\* 72-73), runs on to the next offline CPU and requests it online (line 75).
work_up(p) ==
    /\ UNCHANGED ops
    /\ w_pc[p] = "up"
    /\ IF target_cpus <= num_online_cpus \/ OfflineAfter(w_cpu[p]) = {}
       THEN WorkDone(p) /\ UNCHANGED cpu_online
       ELSE LET cpu == Min(OfflineAfter(w_cpu[p])) IN
            /\ cpu_online' \in CpuUpResults(cpu)
            /\ w_cpu' = [w_cpu EXCEPT ![p] = cpu]
            /\ UNCHANGED <<w_pc, w_from, w_en>>
    /\ UNCHANGED <<cfg, state_suspended, platform_refuses, target_cpus, wqv,
                   notif_registered, workv, ctx>>

-----------------------------------------------------------------------------
Next ==
    \/ \E in \in WriteInputs : store_enabled(in)
    \/ store_enabled_return
    \/ start_alloc
    \/ start_register
    \/ start_init
    \/ start_resched
    \/ start_err_dev
    \/ start_err_out
    \/ stop_unregister
    \/ stop_flush
    \/ stop_cancel
    \/ stop_cpu_up
    \/ state_notify
    \/ state_notifier_callback
    \/ callback_resched
    \/ callback_return
    \/ \E in \in WriteInputs : store_max_cpus_online(in)
    \/ store_max_return
    \/ store_max_check
    \/ store_max_resched
    \/ \E in \in WriteInputs : store_debug_mask(in)
    \/ store_debug_einval
    \/ \E p \in Pools : process_one_work(p)
    \/ \E p \in Pools : work_target(p)
    \/ \E p \in Pools : work_compare(p)
    \/ \E p \in Pools : work_down(p)
    \/ \E p \in Pools : work_up(p)

\* The governor on a platform whose hotplug requests may be refused.
Spec == Init /\ [][Next]_vars

\* The governor on a platform that never refuses a hotplug request.
SpecReliable == InitReliable /\ [][Next]_vars

\* A pass considered on its own: state_helper_start has queued helper_work
\* and a kworker of the first pool has just taken it; a write of
\* max_cpus_online has stored its value, seen the governor enabled and is
\* about to call reschedule_work, which queues the pass that follows.  The
\* suspend state, the stored maximum and the online set (CPU 0 in it; other
\* CPUs may have been unplugged from outside) are arbitrary, and no hotplug
\* request is refused.
InitPass ==
    /\ ops = 2
    /\ enabled = 1
    /\ max_cpus_online \in 1 .. NR_CPUS
    /\ debug = DEBUG_MASK
    /\ state_suspended \in BOOLEAN
    /\ cpu_online \in {S \in SUBSET CPUs : 0 \in S}
    /\ target_cpus = 0
    /\ platform_refuses = FALSE
    /\ helper_wq = "live"
    /\ nr_wq = 1
    /\ notif_registered = TRUE
    /\ work_init = TRUE
    /\ pending = FALSE
    /\ worklist = [p \in Pools |-> [cur |-> 0, old |-> 0]]
    /\ work_pool = "p0"
    /\ e_pc = "idle" /\ e_cpu = 0
    /\ m_pc = "resched"
    /\ d_pc = "idle"
    /\ n_pc = "idle"
    /\ w_pc = [p \in Pools |-> IF p = "p0" THEN "target" ELSE "idle"]
    /\ w_cpu = [p \in Pools |-> IF p = "p0" THEN -1 ELSE 0]
    /\ w_from = [p \in Pools |-> IF p = "p0" THEN "cur" ELSE "none"]
    /\ w_en = [p \in Pools |-> 1]

\* The steps of the passes and of the write that requeues the work.
NextPass ==
    \/ store_max_resched
    \/ store_max_return
    \/ \E p \in Pools : process_one_work(p)
    \/ \E p \in Pools : work_target(p)
    \/ \E p \in Pools : work_compare(p)
    \/ \E p \in Pools : work_down(p)
    \/ \E p \in Pools : work_up(p)

SpecPass == InitPass /\ [][NextPass]_vars

\* What each context does once it is inside a handler: the steps that are
\* not the arrival of a new write or notification.
EContinue ==
    \/ store_enabled_return \/ start_alloc \/ start_register \/ start_init
    \/ start_resched \/ start_err_dev \/ start_err_out
    \/ stop_unregister \/ stop_flush \/ stop_cancel \/ stop_cpu_up
NContinue == state_notifier_callback \/ callback_resched \/ callback_return
MContinue == store_max_return \/ store_max_check \/ store_max_resched
DContinue == store_debug_einval
WContinue(p) ==
    \/ process_one_work(p) \/ work_target(p) \/ work_compare(p)
    \/ work_down(p) \/ work_up(p)

\* The governor under a fair scheduler: a context inside a handler and a
\* kworker with work to do keep running; writes and notifications arrive
\* or not as the environment pleases.
SpecFair ==
    /\ Init /\ [][Next]_vars
    /\ WF_vars(EContinue) /\ WF_vars(NContinue)
    /\ WF_vars(MContinue) /\ WF_vars(DContinue)
    /\ \A p \in Pools : WF_vars(WContinue(p))

TypeOK ==
    /\ enabled \in {0, 1}
    /\ max_cpus_online \in 1 .. NR_CPUS
    /\ debug \in {0, 1}
    /\ cpu_online \subseteq CPUs
    /\ 0 \in cpu_online
    /\ helper_wq \in {"NULL", "live", "freed"}
    /\ nr_wq \in 0 .. MaxWq
    /\ ops \in 0 .. MaxOps

-----------------------------------------------------------------------------
(* Shared vocabulary of the properties.                                     *)

RECURSIVE QueuedIn(_)
QueuedIn(S) ==
    IF S = {} THEN 0
    ELSE LET p == CHOOSE x \in S : TRUE IN
         worklist[p].cur + worklist[p].old + QueuedIn(S \ {p})

\* Entries of helper_work waiting on worklists (queued, not yet started).
QueuedTotal == QueuedIn(Pools)

AllPoolsQuiet == \A p \in Pools : PoolQuiet(p)

\* The governor is enabled (start has returned), no trigger is in flight and
\* no pass is queued or running.
Converged ==
    /\ enabled = 1
    /\ e_pc = "idle" /\ m_pc = "idle" /\ n_pc = "idle"
    /\ ~pending
    /\ AllPoolsQuiet

\* state_helper_stop has drained and cancelled the work (it is in its
\* cpu_up loop or has returned) and start has not been called since: stop
\* never destroys helper_wq, a failed start leaves it NULL or freed.
AfterStopDrain ==
    /\ enabled = 0
    /\ e_pc \in {"stop_cpu_up", "stopped", "idle"}
    /\ helper_wq = "live"

-----------------------------------------------------------------------------
\* C1: once the governor is enabled, triggers have ceased, no transition is
\* refused and the last scheduled pass has finished, the number of online
\* CPUs is compute_target(suspended, max_online), at least 1, with CPU 0
\* online.  Stated on the platform that never refuses (SpecReliable).
C1_ConvergedCountIsTarget ==
    Converged =>
        /\ num_online_cpus = compute_target(state_suspended, max_cpus_online)
        /\ num_online_cpus >= 1
        /\ 0 \in cpu_online

\* C2: CPU 0 is never requested offline: no pass has cpu_down(0) as its
\* last request, and CPU 0 is online in every reachable state (stop and
\* start request no CPU offline at all).
C2_Core0NeverRequestedOffline ==
    /\ \A p \in Pools : w_pc[p] = "down" => w_cpu[p] # 0
    /\ 0 \in cpu_online

\* C2, the case reached: a pass has just requested a CPU offline.
C2_OfflineRequested ==
    \E p \in Pools : w_pc[p] = "down" /\ w_cpu[p] > 0

\* C3: once stop has drained and cancelled the work, no pass is pending,
\* starts or executes until the governor is started again.
C3_NoPassAfterStop ==
    AfterStopDrain => ~pending /\ AllPoolsQuiet

\* C4: when stop returns on a platform that refuses no request, every
\* possible CPU is online.
C4_StopReturnsAllOnline ==
    e_pc = "stopped" => cpu_online = CPUs

\* C5: a pass that reads its inputs while helper.enabled is 0 is a no-op:
\* it requests no CPU offline or online.
C5_DisabledPassRequestsNothing ==
    \A p \in Pools :
        (w_pc[p] \in {"down", "up"} /\ w_en[p] = 0) => w_cpu[p] = -1

\* C6: at most one pass is queued (pending, not yet started) at any time.
C6_AtMostOneQueued ==
    QueuedTotal <= 1

\* A step that enters a store handler or delivers a notification
EntersHandler == ops' # ops

\* What C7 calls a rejected write, stated on the parsed input.
BadBool(in) == in.ret # 1 \/ in.val \notin {0, 1}
BadMax(in)  == in.ret # 1 \/ in.val \notin 1 .. NR_CPUS

\* What a rejected write must leave alone: the configuration, the online
\* set, the pending-work state, and every other context.
RejectFrame(pc) ==
    /\ pc' = "einval"
    /\ UNCHANGED <<cfg, plat, target_cpus, wqv, notif_registered, workv, wrk>>

\* C7: a write of max_cpus_online outside [1, NR_CPUS], or of enabled or
\* debug_mask that is not 0 or 1 (or that does not parse), returns -EINVAL
\* and leaves enabled, max_cpus_online, debug, the online set and the
\* pending-work state unchanged; no start, stop or pass is begun.
C7_RejectedWriteMutatesNothing ==
    [][EntersHandler => \A in \in WriteInputs :
         /\ (BadMax(in) /\ store_max_cpus_online(in)) =>
                RejectFrame(m_pc) /\ UNCHANGED <<e_pc, e_cpu, d_pc, n_pc>>
         /\ (BadBool(in) /\ store_enabled(in)) =>
                RejectFrame(e_pc) /\ UNCHANGED <<e_cpu, m_pc, d_pc, n_pc>>
         /\ (BadBool(in) /\ store_debug_mask(in)) =>
                RejectFrame(d_pc) /\ UNCHANGED <<e_pc, e_cpu, m_pc, n_pc>>]_vars

\* C7, the case reached: a max_cpus_online write was refused while the
\* governor was enabled and a pass could have been scheduled.
C7_RejectedWhileEnabled ==
    m_pc = "einval" /\ enabled = 1 /\ helper_wq = "live" /\ ~pending

\* A step of state_helper_start on its failing path
StartFailingStep ==
    \/ e_pc = "start_alloc" /\ e_pc' = "err_out"
    \/ e_pc = "start_register" /\ e_pc' = "err_dev"
    \/ e_pc = "err_dev" /\ e_pc' = "err_out"
    \/ e_pc = "err_out" /\ e_pc' = "start_failed"

\* C8: a failed state_helper_start leaves helper.enabled 0, no notifier
\* registered and no live workqueue behind helper_wq, and none of its steps
\* schedules a pass or changes the online set.
C8_FailedStartLeavesDisabled ==
    [][/\ e_pc' = "start_failed" =>
             /\ enabled' = 0
             /\ ~notif_registered'
             /\ helper_wq' # "live"
       /\ StartFailingStep =>
             /\ QueuedTotal' = QueuedTotal
             /\ pending' = pending
             /\ UNCHANGED <<cpu_online, w_pc, w_cpu>>]_vars

\* C8, the case reached: registration failed and the queue was destroyed.
C8_StartFailedAfterRegister ==
    e_pc = "start_failed" /\ helper_wq = "freed"

\* The governor is enabled and no start or stop is under way.
GovernorEnabled == enabled = 1 /\ e_pc = "idle"

\* C9: a valid max_cpus_online write stores the value; with the governor
\* enabled the call of reschedule_work leaves a pass pending and queued;
\* with helper.enabled 0 the handler returns after the store and changes
\* nothing else: no pass is scheduled, and the online set, enabled and debug
\* stay as they were.
C9_ValidMaxWrite ==
    [][/\ EntersHandler => \A in \in WriteInputs :
            (~BadMax(in) /\ store_max_cpus_online(in)) =>
                /\ max_cpus_online' = in.val
                /\ m_pc' = "check"
                /\ UNCHANGED <<enabled, debug, plat, workv, wrk>>
       /\ (m_pc = "check" /\ m_pc' # m_pc /\ enabled = 0) =>
                /\ m_pc' = "ret_stored"
                /\ UNCHANGED <<cfg, plat, target_cpus, wqv, notif_registered,
                               workv, wrk, e_pc, e_cpu, d_pc, n_pc>>
       /\ (m_pc = "check" /\ m_pc' # m_pc /\ enabled # 0) =>
                m_pc' = "resched"
       /\ (m_pc = "resched" /\ m_pc' # m_pc /\ GovernorEnabled) =>
                /\ m_pc' = "ret_sched"
                /\ pending'
                /\ QueuedTotal' >= 1
                /\ ~pending => QueuedTotal' = QueuedTotal + 1]_vars

\* C9, the case reached: a write to the enabled governor changed the value
\* and scheduled a pass.
C9_WriteScheduled ==
    /\ m_pc = "ret_sched" /\ GovernorEnabled
    /\ max_cpus_online # DEFAULT_MAX_CPUS_ONLINE
    /\ pending

-----------------------------------------------------------------------------
(* The pass on its own (SpecPass) and its loops.                            *)

\* In SpecPass: the pass running on pool p is the one the write requeued,
\* begun after the first pass returned (the write has made its call and
\* nothing waits on a worklist).
SecondRun(p) == w_pc[p] # "idle" /\ m_pc # "resched" /\ QueuedTotal = 0

\* C11: with the inputs and the online set left as the first run left them
\* and no request refused, the second of two runs of state_helper_work in
\* succession never enters a loop, makes no request, and at its comparison
\* finds the count equal to the target (the branch of lines 80-84).
C11_SecondRunShortCircuits ==
    \A p \in Pools :
        SecondRun(p) =>
            /\ w_pc[p] \in {"target", "compare"}
            /\ w_cpu[p] = -1
            /\ w_pc[p] = "compare" =>
                   /\ num_online_cpus = target_cpus
                   /\ target_cpus =
                          compute_target(state_suspended, max_cpus_online)

\* C11, the case reached: the second run at its comparison, after a first
\* run that had CPUs to take offline.
C11_SecondRunCompares ==
    /\ SecondRun("p0") /\ w_pc["p0"] = "compare"
    /\ num_online_cpus < NR_CPUS

\* C12 as stated: before any write the configuration is enabled = 1,
\* max_cpus_online = NR_CPUS, debug = 1.
C12_DefaultsEnabled ==
    ops = 0 => enabled = 1 /\ max_cpus_online = NR_CPUS /\ debug = 1

\* C12 as amended: before any write the configuration is enabled = 0,
\* max_cpus_online = NR_CPUS, debug = 1, and probe has started nothing: no
\* workqueue, no notifier, no pass.
C12_DefaultsDisabled ==
    ops = 0 =>
        /\ enabled = 0 /\ max_cpus_online = NR_CPUS /\ debug = 1
        /\ helper_wq = "NULL" /\ ~notif_registered
        /\ ~pending /\ AllPoolsQuiet /\ cpu_online = CPUs

\* C12, the case reached: the state after module load.
C12_AtModuleLoad ==
    ops = 0 /\ e_pc = "idle" /\ m_pc = "idle" /\ d_pc = "idle" /\ n_pc = "idle"

\* The pass on pool p requests a CPU and stays in its loop.
Requests(p, loop) ==
    w_pc[p] = loop /\ w_pc'[p] = loop /\ w_cpu'[p] # w_cpu[p]

\* The pass on pool p leaves its loop and returns.
Leaves(p, loop) == w_pc[p] = loop /\ w_pc'[p] = "idle"

\* C13: with no request refused, each request of the offline loop is for
\* the lowest-id online CPU other than CPU 0, above the CPU requested before
\* it, made only while the count is above the target, and takes that CPU
\* offline; the loop is left, without a further request, exactly when the
\* count equals the target.
C13_OfflineLowestFirst ==
    [][\A p \in Pools :
         /\ Requests(p, "down") =>
               /\ w_cpu'[p] = Min(cpu_online \ {0})
               /\ w_cpu'[p] > w_cpu[p]
               /\ num_online_cpus > target_cpus
               /\ cpu_online' = cpu_online \ {w_cpu'[p]}
         /\ Leaves(p, "down") =>
               /\ num_online_cpus = target_cpus
               /\ w_cpu[p] >= 1
               /\ cpu_online' = cpu_online]_vars

\* C13, the case reached: suspended with all CPUs online, the pass has
\* requested every CPU but CPU 0, the highest last.
C13_AllButCore0Offline ==
    /\ w_pc["p0"] = "down" /\ w_cpu["p0"] = NR_CPUS - 1
    /\ cpu_online = {0} /\ state_suspended

\* C14: with no request refused, each request of the online loop is for the
\* lowest-id offline CPU, never for an online one, above the CPU requested
\* before it, made only while the count is below the target, and brings that
\* CPU online; the loop is left, without a further request, exactly when the
\* count equals the target.
C14_OnlineLowestFirst ==
    [][\A p \in Pools :
         /\ Requests(p, "up") =>
               /\ w_cpu'[p] = Min(CPUs \ cpu_online)
               /\ w_cpu'[p] \notin cpu_online
               /\ w_cpu'[p] > w_cpu[p]
               /\ num_online_cpus < target_cpus
               /\ cpu_online' = cpu_online \cup {w_cpu'[p]}
         /\ Leaves(p, "up") =>
               /\ num_online_cpus = target_cpus
               /\ w_cpu[p] >= 1
               /\ cpu_online' = cpu_online]_vars

\* C14, the case reached: from CPU 0 alone the pass has brought every CPU
\* online, the highest last.
C14_AllOnlineAgain ==
    /\ w_pc["p0"] = "up" /\ w_cpu["p0"] = NR_CPUS - 1
    /\ cpu_online = CPUs /\ ~state_suspended

\* C15: on a platform that may refuse requests, a pass requests CPUs in
\* strictly ascending id (so each CPU at most once and at most NR_CPUS
\* requests in a pass), a refused request leaves the pass in its loop, and a
\* loop is left only when the count has reached the target or no candidate
\* above the last request remains.
C15_RefusalTolerated ==
    [][\A p \in Pools :
         /\ (Requests(p, "down") \/ Requests(p, "up")) =>
               /\ w_cpu'[p] > w_cpu[p]
               /\ w_cpu'[p] \in CPUs
         /\ Leaves(p, "down") =>
               \/ w_cpu[p] >= 0 /\ target_cpus >= num_online_cpus
               \/ {c \in cpu_online : c > w_cpu[p] /\ c # 0} = {}
         /\ Leaves(p, "up") =>
               \/ target_cpus <= num_online_cpus
               \/ {c \in CPUs \ cpu_online : c > w_cpu[p]} = {}
         /\ (w_pc[p] \in {"down", "up"} /\ w_pc'[p] # w_pc[p]) =>
               w_pc'[p] = "idle"]_vars

\* C15, the case reached: alone, a pass has gone on to CPU 2 after the
\* request for CPU 1 was refused.
C15_WentOnAfterRefusal ==
    /\ w_pc["p0"] = "down" /\ w_cpu["p0"] = 2 /\ 1 \in cpu_online
    /\ w_pc["p1"] = "idle" /\ e_pc = "idle" /\ enabled = 1

-----------------------------------------------------------------------------
\* reschedule_work has returned to a caller that found the governor enabled:
\* store_max_cpus_online after line 209, state_helper_start after line 129.
TriggerAccepted == m_pc = "ret_sched" \/ e_pc = "started"

\* A kworker has taken helper_work and is about to read the suspend state
\* and the maximum (lines 55-58).
PassBegins == \E p \in Pools : w_pc[p] = "target"

\* C16: under a fair scheduler, every trigger accepted with the governor
\* enabled is followed by a pass that begins at or after it and so reads
\* the suspend state and the maximum in effect then.
C16_TriggerFollowedByPass ==
    TriggerAccepted ~> PassBegins

\* A caller of reschedule_work makes its call: store_max_cpus_online at
\* line 209, state_notifier_callback at line 106, state_helper_start at
\* line 129.
CallsReschedule ==
    \/ m_pc = "resched" /\ m_pc' # m_pc
    \/ n_pc = "resched" /\ n_pc' # n_pc
    \/ e_pc = "start_resched" /\ e_pc' # e_pc

\* The call returns to its caller as a successful one does.
CallReturnsNormally ==
    /\ m_pc # m_pc' => m_pc' = "ret_sched"
    /\ n_pc # n_pc' => n_pc' = "idle"
    /\ e_pc # e_pc' => e_pc' = "started"

PassRunning == \E p \in Pools : w_pc[p] # "idle"

\* C17 as stated: a trigger that arrives while a pass is queued or running
\* adds no pass to the ones queued, and is not an error.
C17_TriggerWhileBusyAddsNothing ==
    [][(CallsReschedule /\ (QueuedTotal > 0 \/ PassRunning)) =>
           /\ QueuedTotal' = QueuedTotal
           /\ CallReturnsNormally]_vars

\* C17 as amended: a trigger that arrives while helper_work is pending
\* (queued, its PENDING bit set) changes nothing about the work item or the
\* worklists and returns as a successful call does.
C17_TriggerWhilePendingAddsNothing ==
    [][(CallsReschedule /\ pending) =>
           /\ UNCHANGED <<workv, wqv, cpu_online, wrk>>
           /\ QueuedTotal' = QueuedTotal
           /\ CallReturnsNormally]_vars

\* C17, the case reached: before any pass has begun, the call of start and
\* the call of a max_cpus_online write have both returned and one pass is
\* queued.
C17_TwoCallsOnePass ==
    /\ e_pc = "started" /\ m_pc = "ret_sched"
    /\ pending /\ QueuedTotal = 1
    /\ target_cpus = 0 /\ ~PassRunning

\* C18: at most one execution of state_helper_work is in progress.
C18_OnePassAtATime ==
    Cardinality({p \in Pools : w_pc[p] # "idle"}) <= 1

\* C19: whenever reschedule_work is called, helper_wq names a workqueue
\* that is allocated and not destroyed, and helper_work is initialised.
C19_CallOnLiveInitialisedQueue ==
    [][CallsReschedule => helper_wq = "live" /\ work_init]_vars

\* C20: at most one workqueue is allocated and not destroyed, and none is
\* once state_helper_stop has returned.
C20_AtMostOneWorkqueue ==
    /\ nr_wq <= 1
    /\ e_pc = "stopped" => nr_wq = 0

=============================================================================
